---- MODULE Spec2Model ----
(***************************************************************************)
(* Hybrid retrieval engine of QA-Change-Request-Orchestrator:               *)
(*   src/src/database/test_case_store.py        (TestCaseStore)             *)
(*   src/src/retrieval/hybrid/hybrid_retriever.py (HybridRetriever)         *)
(*   src/src/database/setup.py                  (setup_database_retriever)  *)
(*                                                                         *)
(* Strings are TLA+ strings, read character by character.  Scores are       *)
(* fixed-point integers: a component score s stands for s/100, a weight w   *)
(* for w/10, a fused score or a threshold t for t/1000.                     *)
(***************************************************************************)
EXTENDS Integers, Sequences, FiniteSets, TLC

VARIABLES
    rows,        \* the test_cases table, as ORDER BY priority, title lists it
    config,      \* HybridRetriever.config
    model,       \* HybridRetriever._embedding_model is not None
    cache_file,  \* contents of <cache_dir>/retriever_config.json, or NoFile
    gen,         \* the generate_embeddings call in progress
    gen2,        \* a generate_embeddings call of a second process in progress
    db_exists,   \* the database file exists
    last         \* the operation that produced this state, and what it returned

vars == <<rows, config, model, cache_file, gen, gen2, db_exists, last>>

(***************************************************************************)
(* Python and SQL string primitives                                         *)
(***************************************************************************)
Char(s, i) == SubSeq(s, i, i)

\* A function as an explicit table, worked out once
Tabulate(f) == f @@ <<>>

UpperAlpha == "ABCDEFGHIJKLMNOPQRSTUVWXYZ"
LowerAlpha == "abcdefghijklmnopqrstuvwxyz"
Digits == "0123456789"

InStr(c, alphabet) == \E i \in 1..Len(alphabet) : Char(alphabet, i) = c

IndexIn(c, alphabet) == CHOOSE i \in 1..Len(alphabet) : Char(alphabet, i) = c

LowerChar(c) == IF InStr(c, UpperAlpha) THEN Char(LowerAlpha, IndexIn(c, UpperAlpha)) ELSE c

UpperChar(c) == IF InStr(c, LowerAlpha) THEN Char(UpperAlpha, IndexIn(c, LowerAlpha)) ELSE c

RECURSIVE Lower(_)
Lower(s) == IF s = "" THEN "" ELSE LowerChar(Head(s)) \o Lower(Tail(s))

RECURSIVE Upper(_)
Upper(s) == IF s = "" THEN "" ELSE UpperChar(Head(s)) \o Upper(Tail(s))

\* Python's `sub in s`
Contains(s, sub) ==
    \E i \in 0..(Len(s) - Len(sub)) : SubSeq(s, i + 1, i + Len(sub)) = sub

StartsWith(s, prefix) ==
    Len(s) >= Len(prefix) /\ SubSeq(s, 1, Len(prefix)) = prefix

IsSpace(c) == c = " "

\* str.split(): the maximal runs of non-whitespace characters
RECURSIVE SplitFrom(_, _, _)
SplitFrom(s, i, word) ==
    IF i > Len(s)
    THEN IF word = "" THEN <<>> ELSE <<word>>
    ELSE IF IsSpace(Char(s, i))
         THEN (IF word = "" THEN <<>> ELSE <<word>>) \o SplitFrom(s, i + 1, "")
         ELSE SplitFrom(s, i + 1, word \o Char(s, i))

Split(s) == SplitFrom(s, 1, "")

\* " ".join(parts)
RECURSIVE Join(_)
Join(parts) ==
    IF parts = <<>> THEN ""
    ELSE IF Len(parts) = 1 THEN parts[1]
    ELSE parts[1] \o " " \o Join(Tail(parts))

RECURSIVE Concat(_)
Concat(parts) == IF parts = <<>> THEN "" ELSE parts[1] \o Concat(Tail(parts))

\* list(dict.fromkeys(xs)): duplicates dropped, first occurrences kept in order
RECURSIVE Dedup(_)
Dedup(xs) ==
    IF xs = <<>> THEN <<>>
    ELSE LET init == Dedup(SubSeq(xs, 1, Len(xs) - 1))
             x == xs[Len(xs)]
         IN  IF \E i \in 1..Len(init) : init[i] = x THEN init ELSE Append(init, x)

\* json.dumps of a string: quoted, with " and \ escaped
RECURSIVE JsonEscape(_)
JsonEscape(s) ==
    IF s = "" THEN ""
    ELSE LET c == Head(s)
         IN  (IF c = "\"" \/ c = "\\" THEN "\\" \o c ELSE c) \o JsonEscape(Tail(s))

JsonString(s) == "\"" \o JsonEscape(s) \o "\""

\* json.dumps of a list of strings: ["a", "b"]
RECURSIVE JsonItems(_)
JsonItems(xs) ==
    IF xs = <<>> THEN ""
    ELSE IF Len(xs) = 1 THEN JsonString(xs[1])
    ELSE JsonString(xs[1]) \o ", " \o JsonItems(Tail(xs))

JsonDumps(xs) == "[" \o JsonItems(xs) \o "]"

\* SQLite's  s LIKE p : % matches any run of characters, _ any one character,
\* any other character itself, ASCII letters without regard to case
RECURSIVE Like(_, _)
Like(s, p) ==
    IF p = "" THEN s = ""
    ELSE IF Head(p) = "%"
         THEN \E k \in 0..Len(s) : Like(SubSeq(s, k + 1, Len(s)), Tail(p))
         ELSE /\ s # ""
              /\ (Head(p) = "_" \/ LowerChar(Head(s)) = LowerChar(Head(p)))
              /\ Like(Tail(s), Tail(p))

\* The ASCII characters the model's strings use, in code order: SQLite's BINARY
\* collation compares TEXT byte by byte
Ascii == " \"%,-.0123456789:ABCDEFGHIJKLMNOPQRSTUVWXYZ[\\]_abcdefghijklmnopqrstuvwxyz"

OrdMemo == Tabulate([c \in {Char(Ascii, i) : i \in 1..Len(Ascii)} |-> IndexIn(c, Ascii)])

Ord(c) == OrdMemo[c]

RECURSIVE StrLess(_, _)
StrLess(a, b) ==
    IF b = "" THEN FALSE
    ELSE IF a = "" THEN TRUE
    ELSE IF Head(a) = Head(b) THEN StrLess(Tail(a), Tail(b))
    ELSE Ord(Head(a)) < Ord(Head(b))

Min(a, b) == IF a <= b THEN a ELSE b

\* xs[:n] for n >= 0, and SQL's LIMIT n
Take(xs, n) == SubSeq(xs, 1, Min(n, Len(xs)))

Range(f) == {f[i] : i \in DOMAIN f}

\* The orders in which a list built from a Python set may come out
ListsOf(S) ==
    {xs \in [1..Cardinality(S) -> S] : \A i, j \in 1..Cardinality(S) : xs[i] = xs[j] => i = j}

(***************************************************************************)
(* TestCaseStore                                                            *)
(***************************************************************************)
\* Python's None, as a value a call returns
None == [is_none |-> TRUE]

\* Python's None for the vector column (SQL NULL)
NoVector == <<>>

\* hashlib.md5(title + description).hexdigest()[:12]: the id is a function of
\* the concatenation only; the digest is kept as the string it digests
generate_id(test_case) == test_case.title \o test_case.description

ComponentNames == <<"onboarding", "positions", "graphql", "api", "ui", "auth">>

IsComponent(text) ==
    \E i \in 1..Len(ComponentNames) : Contains(Lower(text), ComponentNames[i])

\* The set that _extract_components turns into a list
extract_components(test_case) ==
    {test_case.tags[i] : i \in {j \in 1..Len(test_case.tags) : IsComponent(test_case.tags[j])}}
    \cup {test_case.preconditions[i] :
            i \in {j \in 1..Len(test_case.preconditions) : IsComponent(test_case.preconditions[j])}}

PriorityTags == {"P0", "P1", "P2", "P3"}

extract_priority(tags) ==
    IF \E i \in 1..Len(tags) : Upper(tags[i]) \in PriorityTags
    THEN Upper(tags[CHOOSE i \in 1..Len(tags) :
                    /\ Upper(tags[i]) \in PriorityTags
                    /\ \A j \in 1..(i - 1) : Upper(tags[j]) \notin PriorityTags])
    ELSE "P2"

ContainsAny(s, words) == \E w \in words : Contains(s, w)

\* re.search(r'P([0-3])', s): the places where the pattern matches
PDigitAt(s) == {i \in 1..(Len(s) - 1) : Char(s, i) = "P" /\ InStr(Char(s, i + 1), "0123")}

extract_priority_from_string(priority_str) ==
    IF priority_str = "" THEN "P2"
    ELSE LET up == Upper(priority_str)
             lo == Lower(priority_str)
         IN  IF PDigitAt(up) # {}
             THEN LET i == CHOOSE k \in PDigitAt(up) : \A m \in PDigitAt(up) : k <= m
                  IN  "P" \o Char(up, i + 1)
             ELSE IF ContainsAny(lo, {"critical", "urgent", "p0"}) THEN "P0"
             ELSE IF ContainsAny(lo, {"high", "important", "p1"}) THEN "P1"
             ELSE IF ContainsAny(lo, {"medium", "normal", "p2"}) THEN "P2"
             ELSE IF ContainsAny(lo, {"low", "p3"}) THEN "P3"
             ELSE "P2"

\* store_test_case, lines 92-97; an absent key reads as its default, and None
\* and "" are both falsy
determine_priority(test_case) ==
    LET given == IF test_case.has_priority THEN test_case.priority ELSE "P2"
        first == IF given # "" /\ ~StartsWith(given, "P")
                 THEN extract_priority_from_string(given)
                 ELSE given
    IN  IF first = "" \/ ~StartsWith(first, "P")
        THEN extract_priority(test_case.tags)
        ELSE first

\* A step is a string (kind "str", its text in step_text) or an object with
\* step_text and step_expected (kind "dict")
StepParts(step) ==
    IF step.kind = "str" THEN <<step.step_text>>
    ELSE (IF step.step_text # "" THEN <<step.step_text>> ELSE <<>>)
         \o (IF step.step_expected # "" THEN <<step.step_expected>> ELSE <<>>)

RECURSIVE StepsParts(_)
StepsParts(steps) ==
    IF steps = <<>> THEN <<>> ELSE StepParts(steps[1]) \o StepsParts(Tail(steps))

text_blob_of(test_case) ==
    Join((IF test_case.description # "" THEN <<test_case.description>> ELSE <<>>)
         \o StepsParts(test_case.steps)
         \o (IF test_case.expected_result # "" THEN <<test_case.expected_result>> ELSE <<>>))

metadata_of(test_case) ==
    [preconditions |-> test_case.preconditions,
     original_file |-> test_case.source_file,
     created_by    |-> test_case.created_by]

tc_id_of(test_case) ==
    IF test_case.has_id THEN test_case.id ELSE generate_id(test_case)

\* The row store_test_case writes; components is the list its set came out as
RowOf(test_case, components, vector) ==
    [id         |-> tc_id_of(test_case),
     title      |-> test_case.title,
     priority   |-> determine_priority(test_case),
     tags       |-> test_case.tags,
     components |-> components,
     text_blob  |-> text_blob_of(test_case),
     vector     |-> IF vector # NoVector THEN vector ELSE NoVector,
     metadata   |-> metadata_of(test_case)]

\* ORDER BY priority ASC, title ASC
RowBefore(a, b) ==
    \/ StrLess(a.priority, b.priority)
    \/ a.priority = b.priority /\ StrLess(a.title, b.title)

\* Rows equal in both keys stay in the order they have in the table: SQLite
\* returns them in rowid order
RECURSIVE OrderRows(_)
OrderRows(table) ==
    IF table = <<>> THEN <<>>
    ELSE LET init == OrderRows(SubSeq(table, 1, Len(table) - 1))
             r == table[Len(table)]
             k == Cardinality({i \in 1..Len(init) : ~RowBefore(r, init[i])})
         IN  SubSeq(init, 1, k) \o <<r>> \o SubSeq(init, k + 1, Len(init))

\* INSERT OR IGNORE: a row with the same primary key stays as it is
InsertOrIgnore(table, row) ==
    IF \E i \in 1..Len(table) : table[i].id = row.id THEN table
    ELSE OrderRows(table \o <<row>>)

\* INSERT OR REPLACE: a row with the same primary key is deleted and the new row
\* gets the next rowid.  Every SELECT that returns several rows is ORDER BY
\* priority, title, so the table is kept as that order lists it, rows with equal
\* keys by rowid: the new row comes after the rows that share its keys.
InsertOrReplace(table, row) ==
    OrderRows(SelectSeq(table, LAMBDA r : r.id # row.id) \o <<row>>)

\* An upsert that keeps the stored vector when it is given none
store_test_case_keeps_vector(table, test_case, components, vector) ==
    LET old == SelectSeq(table, LAMBDA r : r.id = tc_id_of(test_case))
        kept == IF vector = NoVector /\ old # <<>> THEN old[1].vector ELSE vector
    IN  InsertOrReplace(table, RowOf(test_case, components, kept))

store_test_case(table, test_case, components, vector) ==
    InsertOrReplace(table, RowOf(test_case, components, vector))

\* An UPDATE without its WHERE clause
update_vector_everywhere(table, tc_id, vector) ==
    [i \in 1..Len(table) |-> [table[i] EXCEPT !.vector = vector]]

\* UPDATE test_cases SET vector = ? WHERE id = ?
update_vector(table, tc_id, vector) ==
    [i \in 1..Len(table) |->
        IF table[i].id = tc_id THEN [table[i] EXCEPT !.vector = vector] ELSE table[i]]

(***************************************************************************)
(* Inputs                                                                   *)
(***************************************************************************)
MaxTopK == 3

MaxBatchSize == 2

MaxLimit == 2

MaxFiles == 2

TopKs == {0, 1, MaxTopK}

BatchSizes == 1..MaxBatchSize

Limits == 0..MaxLimit

StrStep(text) == [kind |-> "str", step_text |-> text, step_expected |-> ""]

DictStep(text, expected) == [kind |-> "dict", step_text |-> text, step_expected |-> expected]

\* Test-case dictionaries as the JSON files hold them.  has_id and has_priority
\* say whether the key is present; created_by is given with its default.
TestCaseLogin ==
    [has_id |-> FALSE, id |-> "", title |-> "Login", description |-> "user logs in",
     steps |-> <<>>, expected_result |-> "", has_priority |-> TRUE, priority |-> "P1",
     tags |-> <<"auth">>, preconditions |-> <<>>, source_file |-> "", created_by |-> "system"]

TestCaseLogout ==
    [has_id |-> FALSE, id |-> "", title |-> "Logout", description |-> "user logs out after login",
     steps |-> <<>>, expected_result |-> "", has_priority |-> TRUE, priority |-> "P3",
     tags |-> <<>>, preconditions |-> <<>>, source_file |-> "", created_by |-> "system"]

TestCaseApi ==
    [has_id |-> TRUE, id |-> "tc1", title |-> "API token", description |-> "refresh",
     steps |-> <<StrStep("call api"), DictStep("send", "200 ok")>>, expected_result |-> "token",
     has_priority |-> FALSE, priority |-> "",
     tags |-> <<"smoke">>, preconditions |-> <<>>, source_file |-> "", created_by |-> "system"]

TestCaseUi ==
    [has_id |-> TRUE, id |-> "tc1", title |-> "Login", description |-> "x",
     steps |-> <<>>, expected_result |-> "", has_priority |-> TRUE, priority |-> "high",
     tags |-> <<"UI">>, preconditions |-> <<"staging">>, source_file |-> "", created_by |-> "qa"]

TestCases == {TestCaseLogin, TestCaseLogout, TestCaseApi, TestCaseUi}

QueryTexts == {"login", "lo_in", "Login API", "the", "user logs"}

\* The constructor's default config, lines 24-31
DefaultConfig ==
    [keyword_weight |-> 4, semantic_weight |-> 4, priority_weight |-> 2,
     max_candidates |-> 200, max_results |-> 10, min_similarity_threshold |-> 100]

\* A caller's config: keyword score only, two candidates, a threshold that a
\* title match passes
KeywordOnlyConfig ==
    [keyword_weight |-> 10, semantic_weight |-> 0, priority_weight |-> 0,
     max_candidates |-> 2, max_results |-> 1, min_similarity_threshold |-> 500]

Configs == {DefaultConfig, KeywordOnlyConfig}

\* The config file is absent, or holds the dumped config
NoFile == [exists |-> FALSE]

FileOf(cfg) == [exists |-> TRUE, data |-> cfg]

Idle == [pc |-> "idle"]

get_test_case(table, tc_id) ==
    IF \E i \in 1..Len(table) : table[i].id = tc_id
    THEN table[CHOOSE i \in 1..Len(table) : table[i].id = tc_id]
    ELSE None

get_all_test_cases(table) == OrderRows(table)

get_stats(table) ==
    [total_test_cases |-> Len(table),
     with_vectors     |-> Cardinality({i \in 1..Len(table) : table[i].vector # NoVector})]

\* DELETE FROM test_cases
clear_database(table) == <<>>

\* A *.json file of a test case directory.  kind "ok": json.load returns
\* test_case and store_test_case stores it; kind "malformed": json.load
\* raises; kind "store_error": json.load returns test_case and the database
\* raises sqlite3.Error inside store_test_case, before anything is written
SourceFile(name, kind, test_case) ==
    [name |-> name, kind |-> kind, test_case |-> test_case]

SourceFiles ==
    {SourceFile("login.json", "ok", TestCaseLogin),
     SourceFile("logout.json", "ok", TestCaseLogout),
     SourceFile("api.json", "ok", TestCaseApi),
     SourceFile("ui.json", "ok", TestCaseUi),
     SourceFile("bad.json", "malformed", TestCaseLogin),
     SourceFile("locked.json", "store_error", TestCaseLogout)}

\* The directories: what glob("*.json") yields, files in any order
RECURSIVE ListsUpTo(_, _)
ListsUpTo(S, n) ==
    IF n = 0 THEN {<<>>}
    ELSE LET shorter == ListsUpTo(S, n - 1)
         IN  shorter \cup {Append(xs, x) : xs \in {ys \in shorter : Len(ys) = n - 1}, x \in S}

Directories ==
    {files \in ListsUpTo(SourceFiles, MaxFiles) :
        \A i, j \in 1..Len(files) : i # j => files[i].name # files[j].name}

\* Lines 139-140: the parsed test case with its _source_file
Parsed(file) == [file.test_case EXCEPT !.source_file = file.name]

\* The rows store_test_case writes for a file's test case (lines 65-103),
\* one for each order the set of its components comes out in, tabulated by
\* file
FileRows ==
    Tabulate([file \in SourceFiles |->
                {RowOf(Parsed(file), components, NoVector) :
                    components \in ListsOf(extract_components(Parsed(file)))}])

\* A loop that ends at the first file that fails
RECURSIVE IngestFrom_stop(_, _, _)
IngestFrom_stop(table, files, count) ==
    IF files = <<>> \/ files[1].kind # "ok" THEN {[rows |-> table, count |-> count]}
    ELSE UNION {IngestFrom_stop(InsertOrReplace(table, row), Tail(files), count + 1) :
                   row \in FileRows[files[1]]}

\* The loop of store_test_cases_from_directory over the files left, with the
\* table and the count so far: the tables and counts it can end with, one for
\* each order the components' sets come out in. The store_test_case call of
\* line 141 is the INSERT OR REPLACE of the file's row.
RECURSIVE IngestFrom(_, _, _)
IngestFrom(table, files, count) ==
    IF files = <<>> THEN {[rows |-> table, count |-> count]}
    ELSE IF files[1].kind # "ok" THEN IngestFrom(table, Tail(files), count)
    ELSE UNION {IngestFrom(InsertOrReplace(table, row), Tail(files), count + 1) :
                   row \in FileRows[files[1]]}

store_test_cases_from_directory(table, files) == IngestFrom(table, files, 0)


(***************************************************************************)
(* HybridRetriever: the pure part of query                                  *)
(***************************************************************************)
domain_terms ==
    <<"onboarding", "positions", "graphql", "api", "ui", "auth", "authentication",
      "booking", "shift", "approval", "cancellation", "notification", "push",
      "token", "refresh", "login", "logout", "user", "profile", "settings",
      "payment", "billing", "subscription", "waitlist", "queue", "priority">>

\* Members of sklearn's ENGLISH_STOP_WORDS (a frozen set of 318 words); the
\* model's query texts use no other member of it
ENGLISH_STOP_WORDS == {"the", "and", "for", "with", "are", "not", "out", "all"}

IsWordChar(c) == InStr(c, LowerAlpha) \/ InStr(c, UpperAlpha) \/ InStr(c, Digits) \/ c = "_"

IsTokenChar(c) == IsWordChar(c) \/ c = "-"

\* A maximal run of [a-zA-Z0-9_-] without the hyphens at its ends, where \b
\* cannot hold
RECURSIVE StripHyphens(_)
StripHyphens(run) ==
    IF run = "" THEN ""
    ELSE IF Head(run) = "-" THEN StripHyphens(Tail(run))
    ELSE IF Char(run, Len(run)) = "-" THEN StripHyphens(SubSeq(run, 1, Len(run) - 1))
    ELSE run

RECURSIVE RunsFrom(_, _, _)
RunsFrom(s, i, run) ==
    IF i > Len(s)
    THEN IF run = "" THEN <<>> ELSE <<run>>
    ELSE IF IsTokenChar(Char(s, i))
         THEN RunsFrom(s, i + 1, run \o Char(s, i))
         ELSE (IF run = "" THEN <<>> ELSE <<run>>) \o RunsFrom(s, i + 1, "")

\* re.findall(r'\b[a-zA-Z0-9_-]+\b', s)
FindWords(s) ==
    LET runs == RunsFrom(s, 1, "")
        stripped == [i \in 1..Len(runs) |-> StripHyphens(runs[i])]
    IN  SelectSeq(stripped, LAMBDA w : w # "")

\* An extractor that puts the general keywords first
extract_keywords_general_first(query_text) ==
    LET query_lower == Lower(query_text)
        domain_keywords == SelectSeq(domain_terms, LAMBDA term : Contains(query_lower, term))
        words == FindWords(query_lower)
        general_keywords == SelectSeq(words, LAMBDA word : Len(word) > 2 /\ word \notin ENGLISH_STOP_WORDS)
    IN  Dedup(general_keywords \o domain_keywords)

extract_keywords(query_text) ==
    LET query_lower == Lower(query_text)
        domain_keywords == SelectSeq(domain_terms, LAMBDA term : Contains(query_lower, term))
        words == FindWords(query_lower)
        general_keywords == SelectSeq(words, LAMBDA word : Len(word) > 2 /\ word \notin ENGLISH_STOP_WORDS)
    IN  Dedup(domain_keywords \o general_keywords)

\* One keyword's four LIKE conditions, lines 166-174
KeywordCondition(row, keyword) ==
    LET pattern == "%" \o Lower(keyword) \o "%"
    IN  \/ Like(Lower(row.title), pattern)
        \/ Like(Lower(row.text_blob), pattern)
        \/ Like(Lower(JsonDumps(row.tags)), pattern)
        \/ Like(Lower(JsonDumps(row.components)), pattern)

\* A WHERE clause that joins the keywords' conditions with AND
WhereClause_all(row, keywords) ==
    \A i \in 1..Len(keywords) : KeywordCondition(row, keywords[i])

WhereClause(row, keywords) ==
    \E i \in 1..Len(keywords) : KeywordCondition(row, keywords[i])

\* The columns the WHERE clause and the keyword score read
TextOf(row) ==
    [title |-> row.title, text_blob |-> row.text_blob,
     tags |-> row.tags, components |-> row.components]

StoredTexts ==
    UNION {{TextOf(RowOf(test_case, components, NoVector)) :
                components \in ListsOf(extract_components(test_case))} :
           test_case \in TestCases}

\* Keyword lists given to search_by_keywords directly
SearchKeywords == {<<"LOGIN">>, <<"zzz", "auth">>, <<"ui", "staging">>}

\* Those, and the lists query passes to search_by_keywords
KeywordLists == SearchKeywords \cup {extract_keywords(query_text) : query_text \in QueryTexts}

\* WhereClause, worked out once for the texts and keyword lists of the model
WhereMemo ==
    Tabulate([key \in StoredTexts \X KeywordLists |-> WhereClause(key[1], key[2])])

Where(row, keywords) == WhereMemo[<<TextOf(row), keywords>>]

Limit(table, limit) == IF limit < 0 THEN table ELSE Take(table, limit)

SearchResult(row) ==
    [doc_id     |-> row.id,
     title      |-> row.title,
     priority   |-> row.priority,
     tags       |-> row.tags,
     components |-> row.components,
     text_blob  |-> row.text_blob,
     metadata   |-> row.metadata,
     vector     |-> row.vector]

search_by_keywords(table, keywords, limit) ==
    IF keywords = <<>> THEN <<>>
    ELSE LET hits == Limit(OrderRows(SelectSeq(table, LAMBDA r : Where(r, keywords))), limit)
         IN  [i \in 1..Len(hits) |-> SearchResult(hits[i])]

\* The stand-in for SentenceTransformer.encode: a fixed function of the text
encode(text) ==
    LET n == Len(text) % 5
    IN  CASE n = 0 -> <<3, 4>>
          [] n = 1 -> <<4, 3>>
          [] n = 2 -> <<-3, -4>>
          [] n = 3 -> <<0, 5>>
          [] OTHER -> <<0, 0>>

RECURSIVE Dot(_, _)
Dot(v1, v2) == IF v1 = <<>> THEN 0 ELSE v1[1] * v2[1] + Dot(Tail(v1), Tail(v2))

\* np.linalg.norm, on vectors whose norm is a whole number
Norm(v) == CHOOSE r \in 0..Dot(v, v) : r * r = Dot(v, v)

\* A similarity cut off at 0
cosine_similarity_clamped(vec1, vec2) ==
    IF Len(vec1) # Len(vec2) THEN 0
    ELSE IF Norm(vec1) = 0 \/ Norm(vec2) = 0 THEN 0
    ELSE IF Dot(vec1, vec2) < 0 THEN 0
    ELSE (Dot(vec1, vec2) * 100) \div (Norm(vec1) * Norm(vec2))

\* In hundredths; np.dot raises on vectors of different lengths and the
\* except clause returns 0.0
cosine_similarity(vec1, vec2) ==
    IF Len(vec1) # Len(vec2) THEN 0
    ELSE IF Norm(vec1) = 0 \/ Norm(vec2) = 0 THEN 0
    ELSE (Dot(vec1, vec2) * 100) \div (Norm(vec1) * Norm(vec2))

Raised(what) == [ok |-> FALSE, error |-> what]

Returned(value) == [ok |-> TRUE, value |-> value]

\* A re-rank that scores the candidates that have a vector and drops the others
semantic_rerank_partial(query_text, candidates, encode_ok) ==
    IF ~encode_ok THEN Raised("RuntimeError")
    ELSE LET vectored == SelectSeq(candidates, LAMBDA c : c.vector # NoVector)
         IN  Returned([i \in 1..Len(vectored) |->
                vectored[i] @@
                [semantic_score |-> cosine_similarity(encode(query_text), vectored[i].vector)]])

\* encode_ok: whether the provider's encode call on the query text returns
semantic_rerank(query_text, candidates, encode_ok) ==
    IF ~encode_ok THEN Raised("RuntimeError")
    ELSE IF \E i \in 1..Len(candidates) : candidates[i].vector = NoVector
    THEN Raised("RuntimeError")
    ELSE Returned([i \in 1..Len(candidates) |->
            candidates[i] @@
            [semantic_score |-> cosine_similarity(encode(query_text), candidates[i].vector)]])

\* A keyword score without the cap on the text_blob part
calculate_keyword_score_uncapped(query_lower, candidate) ==
    LET words == Split(query_lower)
        title == Lower(candidate.title)
        text_blob == Lower(candidate.text_blob)
        matches == Cardinality({i \in 1..Len(words) : Contains(text_blob, words[i])})
        all_tags == Lower(Join(candidate.tags \o candidate.components))
        score == (IF \E i \in 1..Len(words) : Contains(title, words[i]) THEN 50 ELSE 0)
                 + matches * 10
                 + (IF \E i \in 1..Len(words) : Contains(all_tags, words[i]) THEN 20 ELSE 0)
    IN  Min(score, 100)

\* In hundredths
calculate_keyword_score(query_lower, candidate) ==
    LET words == Split(query_lower)
        title == Lower(candidate.title)
        text_blob == Lower(candidate.text_blob)
        matches == Cardinality({i \in 1..Len(words) : Contains(text_blob, words[i])})
        all_tags == Lower(Join(candidate.tags \o candidate.components))
        score == (IF \E i \in 1..Len(words) : Contains(title, words[i]) THEN 50 ELSE 0)
                 + Min(matches * 10, 30)
                 + (IF \E i \in 1..Len(words) : Contains(all_tags, words[i]) THEN 20 ELSE 0)
    IN  Min(score, 100)

KeywordScoreMemo ==
    Tabulate([key \in {Lower(query_text) : query_text \in QueryTexts} \X StoredTexts |->
                calculate_keyword_score(key[1], key[2])])

KeywordScore(query_lower, candidate) ==
    KeywordScoreMemo[<<query_lower, TextOf(candidate)>>]

\* In hundredths
\* _calculate_priority_score with 0 for what the table does not hold
calculate_priority_score_or_zero(priority) ==
    LET priority_prefix == IF priority # "" THEN Upper(Split(priority)[1]) ELSE "P3"
    IN  CASE priority_prefix = "P1" -> 100
          [] priority_prefix = "P2" -> 80
          [] priority_prefix = "P3" -> 60
          [] priority_prefix = "P4" -> 40
          [] OTHER -> 0

calculate_priority_score(priority) ==
    LET priority_prefix == IF priority # "" THEN Upper(Split(priority)[1]) ELSE "P3"
    IN  CASE priority_prefix = "P1" -> 100
          [] priority_prefix = "P2" -> 80
          [] priority_prefix = "P3" -> 60
          [] priority_prefix = "P4" -> 40
          [] OTHER -> 60

semantic_score_of(candidate) ==
    IF "semantic_score" \in DOMAIN candidate THEN candidate.semantic_score ELSE 0

\* A weighted sum without the priority term
final_score_no_priority(cfg, keyword_score, semantic_score, priority_score) ==
    cfg.keyword_weight * keyword_score + cfg.semantic_weight * semantic_score

\* Lines 174-178: the weighted sum, in thousandths (weights in tenths, scores
\* in hundredths)
final_score(cfg, keyword_score, semantic_score, priority_score) ==
    cfg.keyword_weight * keyword_score
    + cfg.semantic_weight * semantic_score
    + cfg.priority_weight * priority_score

\* Lines 165-184: the three scores and the weighted sum
Scored(cfg, query_lower, candidate) ==
    LET keyword_score == KeywordScore(query_lower, candidate)
        priority_score == calculate_priority_score(candidate.priority)
        final_score_ == final_score(cfg, keyword_score, semantic_score_of(candidate),
                                    priority_score)
    IN  candidate @@ [score |-> final_score_,
                      keyword_score |-> keyword_score,
                      priority_score |-> priority_score]

\* A descending sort that puts a candidate before the earlier candidates of
\* the same score
RECURSIVE SortByScore_unstable(_)
SortByScore_unstable(candidates) ==
    IF candidates = <<>> THEN <<>>
    ELSE LET init == SortByScore_unstable(SubSeq(candidates, 1, Len(candidates) - 1))
             c == candidates[Len(candidates)]
             k == Cardinality({i \in 1..Len(init) : init[i].score > c.score})
         IN  SubSeq(init, 1, k) \o <<c>> \o SubSeq(init, k + 1, Len(init))

\* sorted(candidates, key=score, reverse=True): equal scores keep their order
RECURSIVE SortByScore(_)
SortByScore(candidates) ==
    IF candidates = <<>> THEN <<>>
    ELSE LET init == SortByScore(SubSeq(candidates, 1, Len(candidates) - 1))
             c == candidates[Len(candidates)]
             k == Cardinality({i \in 1..Len(init) : init[i].score >= c.score})
         IN  SubSeq(init, 1, k) \o <<c>> \o SubSeq(init, k + 1, Len(init))

\* A filter that keeps every candidate
ThresholdFilter_none(cfg, ranked) == ranked

ThresholdFilter(cfg, ranked) ==
    SelectSeq(ranked, LAMBDA c : c.score >= cfg.min_similarity_threshold)

LowerMemo == Tabulate([query_text \in QueryTexts |-> Lower(query_text)])

apply_ranking(cfg, query_text, candidates) ==
    LET query_lower == LowerMemo[query_text]
        scored == [i \in 1..Len(candidates) |-> Scored(cfg, query_lower, candidates[i])]
    IN  ThresholdFilter(cfg, SortByScore(scored))

\* ranked_results[:top_k]
SliceTo(xs, top_k) ==
    IF top_k >= 0 THEN Take(xs, top_k)
    ELSE SubSeq(xs, 1, IF Len(xs) + top_k > 0 THEN Len(xs) + top_k ELSE 0)

KeywordsMemo == Tabulate([query_text \in QueryTexts |-> extract_keywords(query_text)])

Keywords(query_text) == KeywordsMemo[query_text]

\* Lines 72-73
Candidates(table, cfg, query_text) ==
    search_by_keywords(table, Keywords(query_text), cfg.max_candidates)

\* A query that runs the semantic stage whether or not a model is attached
query_always_reranks(table, cfg, has_model, query_text, top_k, encode_ok) ==
    LET candidates == Candidates(table, cfg, query_text)
    IN  IF candidates = <<>> THEN Returned(<<>>)
        ELSE LET reranked == semantic_rerank(query_text, candidates, encode_ok)
             IN  IF ~reranked.ok THEN reranked
                 ELSE Returned(SliceTo(apply_ranking(cfg, query_text, reranked.value), top_k))

\* A query that returns no more than max_results elements
query_capped(table, cfg, has_model, query_text, top_k, encode_ok) ==
    LET candidates == Candidates(table, cfg, query_text)
    IN  IF candidates = <<>> THEN Returned(<<>>)
        ELSE LET reranked == IF has_model
                             THEN semantic_rerank(query_text, candidates, encode_ok)
                             ELSE Returned(candidates)
             IN  IF ~reranked.ok THEN reranked
                 ELSE Returned(SliceTo(apply_ranking(cfg, query_text, reranked.value),
                                       Min(top_k, cfg.max_results)))

\* HybridRetriever.query on a retriever with config cfg and, when has_model, an
\* embedding model
query(table, cfg, has_model, query_text, top_k, encode_ok) ==
    LET candidates == Candidates(table, cfg, query_text)
    IN  IF candidates = <<>> THEN Returned(<<>>)
        ELSE LET reranked == IF has_model
                             THEN semantic_rerank(query_text, candidates, encode_ok)
                             ELSE Returned(candidates)
             IN  IF ~reranked.ok THEN reranked
                 ELSE Returned(SliceTo(apply_ranking(cfg, query_text, reranked.value), top_k))


(***************************************************************************)
(* The state machine                                                        *)
(***************************************************************************)
\* A fresh store, and a retriever built on it by the constructor
Init ==
    /\ rows = <<>>
    /\ config \in Configs
    /\ model = FALSE
    /\ cache_file = NoFile
    /\ gen = Idle
    /\ gen2 = Idle
    /\ db_exists = TRUE
    /\ last = [op |-> "init"]

\* TestCaseStore.store_test_case(test_case), as store_test_cases_from_directory
\* calls it: without a vector.  before is what get_test_case(id) returned
\* before the call.
StoreTestCase ==
    /\ gen.pc = "idle"
    /\ gen2.pc = "idle"
    /\ \E test_case \in TestCases :
       \E components \in ListsOf(extract_components(test_case)) :
          /\ rows' = store_test_case(rows, test_case, components, NoVector)
          /\ last' = [op |-> "store_test_case", test_case |-> test_case,
                      before |-> get_test_case(rows, tc_id_of(test_case)),
                      out |-> tc_id_of(test_case)]
    /\ UNCHANGED <<config, model, cache_file, gen, gen2, db_exists>>

\* TestCaseStore.store_test_case(test_case) by another process while a
\* generate_embeddings call is between two of its statements
StoreTestCaseDuringBackfill ==
    /\ gen.pc # "idle"
    /\ \E test_case \in TestCases :
       \E components \in ListsOf(extract_components(test_case)) :
          /\ rows' = store_test_case(rows, test_case, components, NoVector)
          /\ last' = [op |-> "store_test_case", test_case |-> test_case,
                      before |-> get_test_case(rows, tc_id_of(test_case)),
                      out |-> tc_id_of(test_case)]
    /\ UNCHANGED <<config, model, cache_file, gen, gen2, db_exists>>

\* TestCaseStore.search_by_keywords(keywords, limit)
SearchByKeywords ==
    /\ gen.pc = "idle"
    /\ \E keywords \in KeywordLists, limit \in Limits :
          last' = [op |-> "search_by_keywords", keywords |-> keywords, limit |-> limit,
                   out |-> search_by_keywords(rows, keywords, limit)]
    /\ UNCHANGED <<rows, config, model, cache_file, gen, gen2, db_exists>>

\* TestCaseStore.update_vector(tc_id, vector) with the encoding of a stored
\* row's text_blob
UpdateVector ==
    /\ gen.pc = "idle"
    /\ \E i \in 1..Len(rows) :
          /\ rows' = update_vector(rows, rows[i].id, encode(rows[i].text_blob))
          /\ last' = [op |-> "update_vector", tc_id |-> rows[i].id]
    /\ UNCHANGED <<config, model, cache_file, gen, gen2, db_exists>>

\* TestCaseStore.store_test_cases_from_directory(test_cases_dir)
StoreTestCasesFromDirectory ==
    /\ gen.pc = "idle"
    /\ gen2.pc = "idle"
    /\ \E files \in Directories :
       \E end \in store_test_cases_from_directory(rows, files) :
          /\ rows' = end.rows
          /\ last' = [op |-> "store_test_cases_from_directory", files |-> files,
                      was_empty |-> rows = <<>>, out |-> Returned(end.count)]
    /\ UNCHANGED <<config, model, cache_file, gen, gen2, db_exists>>

\* TestCaseStore.clear_database()
ClearDatabase ==
    /\ gen.pc = "idle"
    /\ gen2.pc = "idle"
    /\ rows' = clear_database(rows)
    /\ last' = [op |-> "clear_database"]
    /\ UNCHANGED <<config, model, cache_file, gen, gen2, db_exists>>

\* HybridRetriever(store, config) on the store as it is: the new retriever
\* replaces the one in use
NewRetriever ==
    /\ gen.pc = "idle"
    /\ \E given \in Configs :
          /\ config' = given
          /\ model' = FALSE
          /\ last' = [op |-> "init"]
    /\ UNCHANGED <<rows, cache_file, gen, gen2, db_exists>>

\* A query that loads the embedding model when none is attached
QueryLoadsModel ==
    /\ gen.pc = "idle"
    /\ \E query_text \in QueryTexts, top_k \in TopKs, encode_ok \in BOOLEAN :
          last' = [op |-> "query", query_text |-> query_text, top_k |-> top_k,
                   encode_ok |-> encode_ok,
                   out |-> query(rows, config, TRUE, query_text, top_k, encode_ok)]
    /\ model' = TRUE
    /\ UNCHANGED <<rows, config, cache_file, gen, gen2, db_exists>>

\* HybridRetriever.query(query_text, top_k)
Query ==
    /\ gen.pc = "idle"
    /\ \E query_text \in QueryTexts, top_k \in TopKs,
          encode_ok \in (IF model THEN BOOLEAN ELSE {TRUE}) :
          last' = [op |-> "query", query_text |-> query_text, top_k |-> top_k,
                   encode_ok |-> encode_ok,
                   out |-> query(rows, config, model, query_text, top_k, encode_ok)]
    /\ UNCHANGED <<rows, config, model, cache_file, gen, gen2, db_exists>>

\* A scan that takes every test case, with a vector or without
CasesWithoutVectors_all(table) == get_all_test_cases(table)

\* cases_without_vectors, line 277, in get_all_test_cases' order
CasesWithoutVectors(table) ==
    SelectSeq(get_all_test_cases(table), LAMBDA tc : tc.vector = NoVector)

\* generate_embeddings up to its loop: the model is loaded (or the import
\* fails and the call raises), the store is scanned
GenerateStart ==
    /\ gen.pc = "idle"
    /\ \E batch_size \in BatchSizes, importable \in BOOLEAN :
          IF ~model /\ ~importable
          THEN /\ last' = [op |-> "generate_embeddings", done |-> TRUE,
                           encoded |-> <<>>, failed |-> FALSE,
                           out |-> Raised("ImportError")]
               /\ UNCHANGED <<model, gen>>
          ELSE LET todo == CasesWithoutVectors(rows)
               IN  /\ model' = TRUE
                   /\ gen' = IF todo = <<>> THEN Idle
                             ELSE [pc |-> "encode", batch_size |-> batch_size, todo |-> todo,
                                   before |-> rows, encoded |-> <<>>, failed |-> FALSE]
                   /\ last' = [op |-> "generate_embeddings", done |-> todo = <<>>,
                               encoded |-> <<>>, failed |-> FALSE,
                               out |-> Returned("None")]
    /\ UNCHANGED <<rows, config, cache_file, gen2, db_exists>>

\* What the call leaves once its loop has no batch left
GenerateAfter(g) ==
    /\ gen' = IF g.todo = <<>> THEN Idle ELSE g
    /\ last' = [op |-> "generate_embeddings", done |-> g.todo = <<>>,
                encoded |-> g.encoded, failed |-> g.failed,
                out |-> Returned("None")]

\* One batch's encode call, line 290; when it raises, the batch is skipped
GenerateEncode ==
    /\ gen.pc = "encode"
    /\ \E encode_ok \in BOOLEAN :
          LET batch == Take(gen.todo, gen.batch_size)
              rest == SubSeq(gen.todo, Len(batch) + 1, Len(gen.todo))
          IN  IF encode_ok
              THEN /\ gen' = [gen EXCEPT !.pc = "write", !.todo = rest]
                            @@ [pending |-> [i \in 1..Len(batch) |->
                                    [id |-> batch[i].id, vector |-> encode(batch[i].text_blob)]]]
                   /\ UNCHANGED last
              ELSE GenerateAfter([gen EXCEPT !.todo = rest, !.failed = TRUE])
    /\ UNCHANGED <<rows, config, model, cache_file, gen2, db_exists>>

\* One update_vector call of the loop at lines 292-293
GenerateWrite ==
    /\ gen.pc = "write"
    /\ LET w == gen.pending[1]
           left == Tail(gen.pending)
           g == [pc |-> "encode", batch_size |-> gen.batch_size, todo |-> gen.todo,
                 before |-> gen.before, encoded |-> Append(gen.encoded, w.id),
                 failed |-> gen.failed]
       IN  /\ rows' = update_vector(rows, w.id, w.vector)
           /\ IF left # <<>>
              THEN /\ gen' = [gen EXCEPT !.pending = left, !.encoded = g.encoded]
                   /\ UNCHANGED last
              ELSE GenerateAfter(g)
    /\ UNCHANGED <<config, model, cache_file, gen2, db_exists>>

\* generate_embeddings of the retriever of a second process on the same
\* database, up to its loop; that retriever's model loads or the call raises
Generate2Start ==
    /\ gen2.pc = "idle"
    /\ \E batch_size \in BatchSizes, importable \in BOOLEAN :
          IF ~importable
          THEN /\ last' = [op |-> "generate_embeddings", done |-> TRUE,
                           encoded |-> <<>>, failed |-> FALSE,
                           out |-> Raised("ImportError")]
               /\ UNCHANGED gen2
          ELSE LET todo == CasesWithoutVectors(rows)
               IN  /\ gen2' = IF todo = <<>> THEN Idle
                              ELSE [pc |-> "encode", batch_size |-> batch_size,
                                    todo |-> todo, before |-> rows, encoded |-> <<>>,
                                    failed |-> FALSE]
                   /\ last' = [op |-> "generate_embeddings", done |-> todo = <<>>,
                               encoded |-> <<>>, failed |-> FALSE,
                               out |-> Returned("None")]
    /\ UNCHANGED <<rows, config, model, cache_file, gen, db_exists>>

Generate2After(g) ==
    /\ gen2' = IF g.todo = <<>> THEN Idle ELSE g
    /\ last' = [op |-> "generate_embeddings", done |-> g.todo = <<>>,
                encoded |-> g.encoded, failed |-> g.failed,
                out |-> Returned("None")]

\* One batch's encode call of the second process
Generate2Encode ==
    /\ gen2.pc = "encode"
    /\ \E encode_ok \in BOOLEAN :
          LET batch == Take(gen2.todo, gen2.batch_size)
              rest == SubSeq(gen2.todo, Len(batch) + 1, Len(gen2.todo))
          IN  IF encode_ok
              THEN /\ gen2' = [gen2 EXCEPT !.pc = "write", !.todo = rest]
                             @@ [pending |-> [i \in 1..Len(batch) |->
                                    [id |-> batch[i].id, vector |-> encode(batch[i].text_blob)]]]
                   /\ UNCHANGED last
              ELSE Generate2After([gen2 EXCEPT !.todo = rest, !.failed = TRUE])
    /\ UNCHANGED <<rows, config, model, cache_file, gen, db_exists>>

\* One update_vector call of the second process
Generate2Write ==
    /\ gen2.pc = "write"
    /\ LET w == gen2.pending[1]
           left == Tail(gen2.pending)
           g == [pc |-> "encode", batch_size |-> gen2.batch_size, todo |-> gen2.todo,
                 before |-> gen2.before, encoded |-> Append(gen2.encoded, w.id),
                 failed |-> gen2.failed]
       IN  /\ rows' = update_vector(rows, w.id, w.vector)
           /\ IF left # <<>>
              THEN /\ gen2' = [gen2 EXCEPT !.pending = left, !.encoded = g.encoded]
                   /\ UNCHANGED last
              ELSE Generate2After(g)
    /\ UNCHANGED <<config, model, cache_file, gen, db_exists>>

\* The process running generate_embeddings stops between two statements of
\* the loop: every update_vector that returned has committed, the retriever
\* and its model are gone
Crash ==
    /\ gen.pc # "idle"
    /\ gen' = Idle
    /\ model' = FALSE
    /\ last' = [op |-> "crash", encoded |-> gen.encoded]
    /\ UNCHANGED <<rows, config, cache_file, gen2, db_exists>>

\* A query that reads a copy of the store taken when the run began
QueryDuringBackfill_stale ==
    /\ gen.pc # "idle"
    /\ \E query_text \in QueryTexts, top_k \in TopKs, has_model \in BOOLEAN,
          encode_ok \in BOOLEAN :
          /\ ~has_model => encode_ok
          /\ last' = [op |-> "query", query_text |-> query_text, top_k |-> top_k,
                      encode_ok |-> encode_ok, has_model |-> has_model,
                      out |-> query(gen.before, config, has_model, query_text, top_k,
                                    encode_ok)]
    /\ UNCHANGED <<rows, config, model, cache_file, gen, gen2, db_exists>>

\* HybridRetriever.query(query_text, top_k) while a generate_embeddings call
\* is between two of its statements, by the retriever of that call or by the
\* retriever of another process on the same database, with or without a model
QueryDuringBackfill ==
    /\ gen.pc # "idle"
    /\ \E query_text \in QueryTexts, top_k \in TopKs, has_model \in BOOLEAN,
          encode_ok \in BOOLEAN :
          /\ ~has_model => encode_ok
          /\ last' = [op |-> "query", query_text |-> query_text, top_k |-> top_k,
                      encode_ok |-> encode_ok, has_model |-> has_model,
                      out |-> query(rows, config, has_model, query_text, top_k, encode_ok)]
    /\ UNCHANGED <<rows, config, model, cache_file, gen, gen2, db_exists>>

\* HybridRetriever.dump(cache_dir)
Dump ==
    /\ gen.pc = "idle"
    /\ cache_file' = FileOf(config)
    /\ last' = [op |-> "dump"]
    /\ UNCHANGED <<rows, config, model, gen, gen2, db_exists>>

\* The retriever objects load_from_cache returns
Retriever(cfg, has_model) == [is_none |-> FALSE, config |-> cfg, model |-> has_model]

\* The body of the try statement of load_from_cache, lines 321-333:
\* TestCaseStore(db_path) raises on a file it cannot open as a database,
\* _load_embedding_model raises when the provider cannot be imported;
\* otherwise the retriever, with the content of retriever_config.json as its
\* config when that file exists and the supplied config when it does not
LoadBody(opens, importable, file, given) ==
    IF ~opens
    THEN Raised("DatabaseError")
    ELSE IF ~importable
         THEN Raised("ImportError")
         ELSE Returned(Retriever(IF file.exists THEN file.data ELSE given, TRUE))

\* load_from_cache that takes the supplied config whatever the cache holds
load_from_cache_given(exists, opens, importable, file, given) ==
    IF exists /\ opens /\ importable
    THEN Returned(Retriever(given, TRUE))
    ELSE Returned(None)

\* load_from_cache without its except clause
load_from_cache_raising(exists, opens, importable, file, given) ==
    IF ~exists THEN Returned(None) ELSE LoadBody(opens, importable, file, given)

\* HybridRetriever.load_from_cache: None when db_path does not exist (lines
\* 318-319), None when the body raises (except Exception, 335-337), and the
\* body's retriever otherwise
load_from_cache(exists, opens, importable, file, given) ==
    IF ~exists
    THEN Returned(None)
    ELSE LET body == LoadBody(opens, importable, file, given)
         IN  IF body.ok THEN body ELSE Returned(None)

\* Priority strings of source documents
PriorityStrings ==
    {"P0", "P1", "P2", "P3", "P4", "p1", "P2 - High", "high", "low", "Pizza", ""}

\* Test cases that differ in their priority key and in a priority tag:
\* has_priority FALSE is a document without the key, "" one whose priority
\* is empty or null
PriorityCases ==
    {[TestCaseLogin EXCEPT !.priority = priority, !.tags = tags] :
        priority \in PriorityStrings, tags \in {<<>>, <<"p0">>}}
    \cup {[TestCaseLogin EXCEPT !.has_priority = FALSE, !.priority = "", !.tags = <<"p3">>],
          [TestCaseLogout EXCEPT !.priority = "P4"]}

\* TestCaseStore.store_test_case(test_case) for the documents of
\* PriorityCases
StorePriorityCase ==
    /\ gen.pc = "idle"
    /\ gen2.pc = "idle"
    /\ \E test_case \in PriorityCases :
       \E components \in ListsOf(extract_components(test_case)) :
          /\ rows' = store_test_case(rows, test_case, components, NoVector)
          /\ last' = [op |-> "store_test_case", test_case |-> test_case,
                      before |-> get_test_case(rows, tc_id_of(test_case)),
                      out |-> tc_id_of(test_case)]
    /\ UNCHANGED <<config, model, cache_file, gen, gen2, db_exists>>

\* HybridRetriever._calculate_priority_score(priority), applied as
\* _apply_ranking applies it (line 171) to the priority of a stored document,
\* and to the priority strings and the missing priority ("")
CalculatePriorityScore ==
    /\ \E priority \in PriorityStrings \cup {rows[i].priority : i \in 1..Len(rows)} :
          last' = [op |-> "calculate_priority_score", priority |-> priority,
                   out |-> calculate_priority_score(priority)]
    /\ UNCHANGED <<rows, config, model, cache_file, gen, gen2, db_exists>>

\* Query texts given to the extractor; their stopwords are those of
\* ENGLISH_STOP_WORDS
ExtractorQueries ==
    QueryTexts \cup {"refresh-token of API", "to go", "zzz", "", "Login login logs",
                     "the API and the UI", "not for all", "-push- queue_2 x1"}

\* HybridRetriever._extract_keywords(query_text)
ExtractKeywords ==
    /\ \E query_text \in ExtractorQueries :
          last' = [op |-> "extract_keywords", query_text |-> query_text,
                   out |-> extract_keywords(query_text)]
    /\ UNCHANGED <<rows, config, model, cache_file, gen, gen2, db_exists>>

\* Query texts given to the scorer
ScorerQueries ==
    QueryTexts \cup {"user logs out after", "AUTH ui", "login login", "zzz", "",
                     "refresh-token of API", "to go"}

\* HybridRetriever._calculate_keyword_score(query_lower, candidate) on a
\* stored document as search_by_keywords returns it, with the query lowered
\* as _apply_ranking lowers it (line 162)
CalculateKeywordScore ==
    /\ \E query_text \in ScorerQueries, i \in 1..Len(rows) :
          LET query_lower == Lower(query_text)
              candidate == SearchResult(rows[i])
          IN  last' = [op |-> "calculate_keyword_score", query_lower |-> query_lower,
                       candidate |-> candidate,
                       out |-> calculate_keyword_score(query_lower, candidate)]
    /\ UNCHANGED <<rows, config, model, cache_file, gen, gen2, db_exists>>

\* Component scores, in hundredths: what _calculate_keyword_score, the cosine
\* similarity and _calculate_priority_score can yield
KeywordScores == {0, 20, 50, 70, 100}

SemanticScores == {-100, -60, 0, 60, 100}

PriorityScores == {40, 60, 80, 100}

\* Weights 0.4, 0.4, 0.2 with threshold 0.5
StrictConfig == [DefaultConfig EXCEPT !.min_similarity_threshold = 500]

FusionConfigs == Configs \cup {StrictConfig}

\* The body of the loop of _apply_ranking for one candidate with the three
\* component scores given, lines 174-180, and the threshold test of line 190
FuseScores ==
    /\ \E cfg \in FusionConfigs, keyword_score \in KeywordScores,
          semantic_score \in SemanticScores, priority_score \in PriorityScores :
          LET score == final_score(cfg, keyword_score, semantic_score, priority_score)
          IN  last' = [op |-> "final_score", cfg |-> cfg,
                       keyword_score |-> keyword_score,
                       semantic_score |-> semantic_score,
                       priority_score |-> priority_score,
                       out |-> score,
                       kept |-> ThresholdFilter(cfg, <<[score |-> score]>>) # <<>>]
    /\ UNCHANGED <<rows, config, model, cache_file, gen, gen2, db_exists>>

\* HybridRetriever.load_from_cache(cache_dir, db_path, config); the retriever
\* it returns replaces the one in use. Whether the store opens is asked only
\* of a file that exists, whether the import succeeds only once it opened.
LoadFromCache ==
    /\ gen.pc = "idle"
    /\ \E given \in Configs, opens \in BOOLEAN, importable \in BOOLEAN :
          /\ ~db_exists => opens
          /\ ~opens => importable
          /\ LET loaded == load_from_cache(db_exists, opens, importable, cache_file, given)
             IN  /\ last' = [op |-> "load_from_cache", given |-> given,
                             db_existed |-> db_exists, opens |-> opens,
                             importable |-> importable, out |-> loaded]
                 /\ IF loaded.ok /\ ~loaded.value.is_none
                    THEN /\ config' = loaded.value.config
                         /\ model' = loaded.value.model
                    ELSE UNCHANGED <<config, model>>
    /\ UNCHANGED <<rows, cache_file, gen, gen2, db_exists>>

\* The retrieval_config of setup_database_retriever, lines 40-47: the
\* settings of the YAML file, and max_results 10
SetupConfigs == {[cfg EXCEPT !.max_results = 10] : cfg \in Configs}

\* The test_cases_dir of setup_database_retriever
SetupDirectories ==
    {<<>>,
     <<SourceFile("login.json", "ok", TestCaseLogin)>>,
     <<SourceFile("bad.json", "malformed", TestCaseLogin),
       SourceFile("api.json", "ok", TestCaseApi)>>}

\* The loop of generate_embeddings over one batch, lines 285-298: every
\* document of the batch gets its encoding, or none does when encode raises
RECURSIVE WriteVectors(_, _)
WriteVectors(table, todo) ==
    IF todo = <<>> THEN table
    ELSE WriteVectors(update_vector(table, Head(todo).id, encode(Head(todo).text_blob)),
                      Tail(todo))

\* generate_embeddings() with its default batch size of 100, which holds every
\* document of the stores modelled here
generate_embeddings(table, encode_ok) ==
    IF encode_ok THEN WriteVectors(table, CasesWithoutVectors(table)) ELSE table

\* The test_cases_dir of from_test_case_dir
TestCaseDirs ==
    {<<SourceFile("login.json", "ok", TestCaseLogin),
       SourceFile("logout.json", "ok", TestCaseLogout)>>,
     <<SourceFile("ui.json", "ok", TestCaseUi)>>,
     <<SourceFile("bad.json", "malformed", TestCaseLogin),
       SourceFile("api.json", "ok", TestCaseApi)>>}

\* HybridRetriever.from_test_case_dir(test_cases_dir, db_path, config): the
\* store at db_path is opened, or created, the directory is ingested into
\* it, and a retriever without a model is built on it, which replaces the
\* one in use
FromTestCaseDir ==
    /\ gen.pc = "idle"
    /\ gen2.pc = "idle"
    /\ \E files \in TestCaseDirs, given \in Configs :
       \E end \in store_test_cases_from_directory(IF db_exists THEN rows ELSE <<>>, files) :
          /\ rows' = end.rows
          /\ db_exists' = TRUE
          /\ config' = given
          /\ model' = FALSE
          /\ last' = [op |-> "from_test_case_dir", files |-> files, given |-> given]
    /\ UNCHANGED <<cache_file, gen, gen2>>

\* HybridRetriever.generate_embeddings() from call to return, with nothing
\* else running and the default batch size: the model is loaded, or the
\* import fails and the call raises; then the documents without a vector
\* are encoded and written
GenerateEmbeddings ==
    /\ gen.pc = "idle"
    /\ gen2.pc = "idle"
    /\ \E importable \in BOOLEAN, encode_ok \in BOOLEAN :
          IF ~model /\ ~importable
          THEN /\ last' = [op |-> "generate_embeddings", out |-> Raised("ImportError"),
                           failed |-> FALSE]
               /\ UNCHANGED <<rows, model>>
          ELSE /\ model' = TRUE
               /\ rows' = generate_embeddings(rows, encode_ok)
               /\ last' = [op |-> "generate_embeddings", out |-> Returned("None"),
                           failed |-> ~encode_ok /\ CasesWithoutVectors(rows) # <<>>]
    /\ UNCHANGED <<config, cache_file, gen, gen2, db_exists>>

\* A config replacement that builds a new retriever, without the model
ReplaceConfig_detaches ==
    /\ gen.pc = "idle"
    /\ \E given \in Configs :
          /\ config' = given
          /\ model' = FALSE
          /\ last' = [op |-> "replace_config"]
    /\ UNCHANGED <<rows, cache_file, gen, gen2, db_exists>>

\* The default weights with threshold 0
LenientConfig == [DefaultConfig EXCEPT !.min_similarity_threshold = 0]

\* retriever.config = retrieval_config, setup.py line 69
ReplaceConfig ==
    /\ gen.pc = "idle"
    /\ \E given \in Configs \cup {LenientConfig} :
          /\ config' = given
          /\ last' = [op |-> "replace_config"]
    /\ UNCHANGED <<rows, model, cache_file, gen, gen2, db_exists>>

\* setup_database_retriever(config, test_cases_dir, cache_dir), the whole
\* call: load_from_cache (line 50); when it returns None, from_test_case_dir
\* opens or creates the store and ingests the directory (55), then
\* generate_embeddings (60), then dump, whose failure is passed over (63-66);
\* when it returns a retriever, its config is replaced by retrieval_config
\* (69). The retriever returned replaces the one in use; when the call
\* raises, what it wrote to the store before stays.
SetupDatabaseRetriever ==
    /\ gen.pc = "idle"
    /\ gen2.pc = "idle"
    /\ \E retrieval_config \in SetupConfigs, files \in SetupDirectories,
          opens \in BOOLEAN, importable \in BOOLEAN,
          encode_ok \in BOOLEAN, dump_ok \in BOOLEAN :
          /\ ~db_exists => opens
          /\ LET loaded == load_from_cache(db_exists, opens, importable, cache_file,
                                           retrieval_config)
                 call == [op |-> "setup_database_retriever", given |-> retrieval_config,
                          files |-> files, db_existed |-> db_exists, opens |-> opens,
                          importable |-> importable, loaded |-> loaded]
             IN  IF ~loaded.ok
                 THEN /\ last' = call @@ [path |-> "none", out |-> loaded]
                      /\ UNCHANGED <<rows, config, model, cache_file, db_exists>>
                 ELSE IF ~loaded.value.is_none
                 THEN /\ config' = retrieval_config
                      /\ model' = loaded.value.model
                      /\ last' = call @@ [path |-> "cache", out |-> Returned("retriever")]
                      /\ UNCHANGED <<rows, cache_file, db_exists>>
                 ELSE IF ~opens
                 THEN /\ last' = call @@ [path |-> "rebuild", out |-> Raised("DatabaseError")]
                      /\ UNCHANGED <<rows, config, model, cache_file, db_exists>>
                 ELSE \E end \in store_test_cases_from_directory(
                                      IF db_exists THEN rows ELSE <<>>, files) :
                      /\ db_exists' = TRUE
                      /\ IF ~importable
                         THEN /\ rows' = end.rows
                              /\ last' = call @@ [path |-> "rebuild",
                                                  out |-> Raised("ImportError")]
                              /\ UNCHANGED <<config, model, cache_file>>
                         ELSE /\ rows' = generate_embeddings(end.rows, encode_ok)
                              /\ cache_file' = IF dump_ok THEN FileOf(retrieval_config)
                                               ELSE cache_file
                              /\ config' = retrieval_config
                              /\ model' = TRUE
                              /\ last' = call @@ [path |-> "rebuild",
                                                  out |-> Returned("retriever")]
    /\ UNCHANGED <<gen, gen2>>

\* clear_database_cache(cache_dir): the directory that holds the database
\* file and retriever_config.json is removed
ClearDatabaseCache ==
    /\ gen.pc = "idle"
    /\ gen2.pc = "idle"
    /\ db_exists' = FALSE
    /\ rows' = <<>>
    /\ cache_file' = NoFile
    /\ last' = [op |-> "clear_database_cache"]
    /\ UNCHANGED <<config, model, gen, gen2>>

Next ==
    \/ StoreTestCase
    \/ NewRetriever
    \/ Query
    \/ GenerateStart
    \/ GenerateEncode
    \/ GenerateWrite
    \/ Dump
    \/ LoadFromCache

Spec == Init /\ [][Next]_vars

\* The store alone, under its public methods
StoreInit ==
    /\ rows = <<>>
    /\ config = DefaultConfig
    /\ model = FALSE
    /\ cache_file = NoFile
    /\ gen = Idle
    /\ gen2 = Idle
    /\ db_exists = TRUE
    /\ last = [op |-> "init"]

StoreNext ==
    \/ StoreTestCase
    \/ SearchByKeywords
    \/ UpdateVector

StoreSpec == StoreInit /\ [][StoreNext]_vars

\* Bulk ingest into the store
IngestNext ==
    \/ StoreTestCasesFromDirectory
    \/ ClearDatabase

IngestSpec == StoreInit /\ [][IngestNext]_vars

\* A run of generate_embeddings that may stop at any statement and that
\* queries interleave with
BackfillNext ==
    \/ StoreTestCase
    \/ GenerateStart
    \/ GenerateEncode
    \/ GenerateWrite
    \/ Crash
    \/ QueryDuringBackfill

BackfillSpec == StoreInit /\ [][BackfillNext]_vars

\* Two processes run generate_embeddings on the same database
TwoRunsNext ==
    \/ StoreTestCase
    \/ GenerateStart
    \/ GenerateEncode
    \/ GenerateWrite
    \/ Generate2Start
    \/ Generate2Encode
    \/ Generate2Write

TwoRunsSpec == StoreInit /\ [][TwoRunsNext]_vars

\* A retriever built from a directory of test cases, and its later life
DirNext ==
    \/ NewRetriever
    \/ FromTestCaseDir
    \/ GenerateEmbeddings
    \/ Query
    \/ Dump
    \/ LoadFromCache
    \/ ReplaceConfig

DirSpec == StoreInit /\ [][DirNext]_vars

\* The keyword extractor, and queries over stored documents
ExtractorNext ==
    \/ StoreTestCase
    \/ ExtractKeywords
    \/ Query

ExtractorSpec == StoreInit /\ [][ExtractorNext]_vars

\* The keyword scorer over stored documents
ScorerNext ==
    \/ StoreTestCase
    \/ CalculateKeywordScore

ScorerSpec == StoreInit /\ [][ScorerNext]_vars

\* Documents stored again, one by one and by directory, into a store that
\* has vectors
ReingestNext ==
    \/ StoreTestCase
    \/ FromTestCaseDir
    \/ GenerateEmbeddings
    \/ Query

ReingestSpec == StoreInit /\ [][ReingestNext]_vars

\* generate_embeddings, statement by statement, with store_test_case calls
\* of another process in between
RaceNext ==
    \/ StoreTestCase
    \/ GenerateStart
    \/ GenerateEncode
    \/ GenerateWrite
    \/ StoreTestCaseDuringBackfill

RaceSpec == StoreInit /\ [][RaceNext]_vars

\* The weighted sum over the component scores
FusionNext ==
    \/ FuseScores

FusionSpec == StoreInit /\ [][FusionNext]_vars

\* Priorities as stored and as scored
PriorityNext ==
    \/ StorePriorityCase
    \/ CalculatePriorityScore

PrioritySpec == StoreInit /\ [][PriorityNext]_vars

\* Setting up, dumping, loading and clearing the cache
SetupNext ==
    \/ SetupDatabaseRetriever
    \/ ClearDatabaseCache
    \/ Dump
    \/ LoadFromCache

SetupSpec == StoreInit /\ [][SetupNext]_vars


(***************************************************************************)
(* Properties                                                               *)
(***************************************************************************)

\* Every action records its call in last and query changes nothing else, so
\* in a state with last.op = "query" the store, the config and the model are
\* those the call ran on.
QueryCandidates == Candidates(rows, config, last.query_text)

HasVector(candidate) == candidate.vector # NoVector

\* C1: when an embedding model is attached and some candidate of the keyword
\* stage has no stored vector, query raises and returns no list at all:
\* neither the candidates that have vectors nor a mix of scored and unscored.
C1_RerankAllOrNothing ==
    (/\ last.op = "query"
     /\ model
     /\ \E i \in 1..Len(QueryCandidates) : ~HasVector(QueryCandidates[i]))
    => /\ ~last.out.ok
       /\ "value" \notin DOMAIN last.out

\* A query with a model attached whose encode call succeeds, on candidates of
\* which one has a vector and another has none, has raised.
C1_Witness ==
    /\ last.op = "query"
    /\ model
    /\ last.encode_ok
    /\ \E i \in 1..Len(QueryCandidates) : ~HasVector(QueryCandidates[i])
    /\ \E i \in 1..Len(QueryCandidates) : HasVector(QueryCandidates[i])
    /\ ~last.out.ok

\* C2: with no embedding model attached query never raises, and the score of
\* every result is keyword_weight * keyword_score + priority_weight *
\* priority_score, whether or not the document has a stored vector.
C2_NoModelNoSemantics ==
    (last.op = "query" /\ ~model)
    => /\ last.out.ok
       /\ \A i \in 1..Len(last.out.value) :
            LET result == last.out.value[i]
            IN  /\ result.score =
                     config.keyword_weight
                         * calculate_keyword_score(Lower(last.query_text), result)
                     + config.priority_weight * calculate_priority_score(result.priority)
                /\ "semantic_score" \notin DOMAIN result

\* A query without a model, under a config that weighs the semantic score,
\* has returned a document with a stored vector and one without.
C2_Witness ==
    /\ last.op = "query"
    /\ ~model
    /\ config.semantic_weight > 0
    /\ last.out.ok
    /\ \E i \in 1..Len(last.out.value) : HasVector(last.out.value[i])
    /\ \E i \in 1..Len(last.out.value) : ~HasVector(last.out.value[i])

\* keyword is a case-insensitive substring of the document's title, of its
\* text_blob, of one of its tags or of one of its components
KeywordOccurs(doc, keyword) ==
    LET k == Lower(keyword)
    IN  \/ Contains(Lower(doc.title), k)
        \/ Contains(Lower(doc.text_blob), k)
        \/ \E i \in 1..Len(doc.tags) : Contains(Lower(doc.tags[i]), k)
        \/ \E i \in 1..Len(doc.components) : Contains(Lower(doc.components[i]), k)

AnyKeywordOccurs(doc, keywords) ==
    \E k \in 1..Len(keywords) : KeywordOccurs(doc, keywords[k])

\* C3: every document search_by_keywords returns contains at least one of the
\* keywords as a case-insensitive substring of its title, its text_blob, one
\* of its tags or one of its components.
C3_KeywordFilterSound ==
    last.op = "search_by_keywords"
    => \A i \in 1..Len(last.out) : AnyKeywordOccurs(last.out[i], last.keywords)

FusedScore(candidate) ==
    config.keyword_weight * calculate_keyword_score(Lower(last.query_text), candidate)
    + (IF model
       THEN config.semantic_weight
                * cosine_similarity(encode(last.query_text), candidate.vector)
       ELSE 0)
    + config.priority_weight * calculate_priority_score(candidate.priority)

\* The place of a document in the list the keyword stage returned
CandidateIndex(doc_id) ==
    CHOOSE i \in 1..Len(QueryCandidates) : QueryCandidates[i].doc_id = doc_id

QueryReturned == last.op = "query" /\ last.out.ok

\* C5: no element of the list query returns has a fused score below
\* min_similarity_threshold, and the list is the top_k best of the candidates
\* that meet the threshold: as many of them as top_k admits, none of those
\* left out scoring higher than one returned.
C5_ThresholdThenTopK ==
    QueryReturned
    => LET out == last.out.value
           meets == {i \in 1..Len(QueryCandidates) :
                        FusedScore(QueryCandidates[i]) >= config.min_similarity_threshold}
           returned == {out[j].doc_id : j \in 1..Len(out)}
       IN  /\ \A j \in 1..Len(out) :
                  /\ out[j].score >= config.min_similarity_threshold
                  /\ out[j].score = FusedScore(QueryCandidates[CandidateIndex(out[j].doc_id)])
           /\ Len(out) = Min(last.top_k, Cardinality(meets))
           /\ \A i \in meets :
                  QueryCandidates[i].doc_id \notin returned
                  => \A j \in 1..Len(out) : out[j].score >= FusedScore(QueryCandidates[i])

\* A query that asked for more than it returned has returned a candidate and
\* dropped another whose score is below the threshold.
C5_Witness ==
    /\ QueryReturned
    /\ Len(last.out.value) > 0
    /\ Len(last.out.value) < last.top_k
    /\ \E i \in 1..Len(QueryCandidates) :
          FusedScore(QueryCandidates[i]) < config.min_similarity_threshold

\* C6: the list query returns is in non-increasing order of fused score, and
\* two results of equal score are in the order the store returned them, which
\* is priority then title ascending.
C6_StableRanking ==
    QueryReturned
    => LET out == last.out.value
       IN  \A i, j \in 1..Len(out) : i < j =>
              /\ out[i].score >= out[j].score
              /\ out[i].score = out[j].score =>
                    /\ CandidateIndex(out[i].doc_id) < CandidateIndex(out[j].doc_id)
                    /\ ~RowBefore(out[j], out[i])

\* A query has returned two results of equal score next to a third of another
\* score.
C6_Witness ==
    /\ QueryReturned
    /\ \E i, j, k \in 1..Len(last.out.value) :
          /\ i < j
          /\ last.out.value[i].score = last.out.value[j].score
          /\ last.out.value[k].score # last.out.value[i].score

\* C7: query returns the first top_k elements of the threshold-filtered
\* ranking and so at most top_k elements; max_results has no effect on the
\* result, and the result is never longer than max_candidates.
C7_TopKNotMaxResults ==
    (QueryReturned /\ last.top_k >= 0)
    => LET out == last.out.value
           ranking == query(rows, config, model, last.query_text, Len(rows), last.encode_ok)
           other == [config EXCEPT !.max_results = IF @ = 0 THEN MaxTopK ELSE 0]
       IN  /\ Len(out) <= last.top_k
           /\ Len(out) <= config.max_candidates
           /\ out = Take(ranking.value, last.top_k)
           /\ Len(out) = Min(last.top_k, Len(ranking.value))
           /\ last.out = query(rows, other, model, last.query_text, last.top_k, last.encode_ok)

\* A query with top_k above max_results has returned more than max_results
\* elements.
C7_Witness ==
    /\ QueryReturned
    /\ last.top_k > config.max_results
    /\ Len(last.out.value) > config.max_results

IdsOf(table) == {table[i].id : i \in 1..Len(table)}

\* C8: store_test_case of a document whose id (given, or derived from title
\* and description) is already stored leaves the number of rows unchanged;
\* after any store_test_case exactly one row has the id, get_test_case
\* returns the title, priority, tags, components, text_blob and metadata of
\* this call, and the rows of other ids are as they were.
C8_UpsertSecondWins ==
    [][last'.op = "store_test_case" =>
         LET tc == last'.test_case
             id == last'.out
             row == get_test_case(rows', id)
         IN  /\ id = (IF tc.has_id THEN tc.id ELSE tc.title \o tc.description)
             /\ Cardinality({i \in 1..Len(rows') : rows'[i].id = id}) = 1
             /\ id \in IdsOf(rows) => Len(rows') = Len(rows)
             /\ id \notin IdsOf(rows) => Len(rows') = Len(rows) + 1
             /\ row.title = tc.title
             /\ row.priority = determine_priority(tc)
             /\ row.tags = tc.tags
             /\ Range(row.components) = extract_components(tc)
             /\ row.text_blob = text_blob_of(tc)
             /\ row.metadata = metadata_of(tc)
             /\ \A other \in IdsOf(rows) \ {id} :
                    get_test_case(rows', other) = get_test_case(rows, other)
    ]_vars

\* store_test_case has replaced a row of the same id whose title, priority,
\* tags, text_blob and metadata were all different, beside another row.
C8_Witness ==
    /\ last.op = "store_test_case"
    /\ last.before # None
    /\ Len(rows) > 1
    /\ LET row == get_test_case(rows, last.out)
       IN  /\ row.title = last.test_case.title
           /\ row.title # last.before.title
           /\ row.priority # last.before.priority
           /\ row.tags # last.before.tags
           /\ row.text_blob # last.before.text_blob
           /\ row.metadata # last.before.metadata

\* C9: query, dump and load_from_cache leave every row of the store as it
\* was; query also leaves the config and the attached model as they were, and
\* a query repeated right after itself returns the same list.
C9_ReadOnly ==
    [][/\ last'.op \in {"query", "dump", "load_from_cache"} => rows' = rows
       /\ last'.op = "query" =>
             /\ config' = config
             /\ model' = model
             /\ cache_file' = cache_file
             /\ (/\ last.op = "query"
                 /\ last'.query_text = last.query_text
                 /\ last'.top_k = last.top_k
                 /\ last'.encode_ok = last.encode_ok) => last'.out = last.out
    ]_vars

\* A query with a model attached has scored and returned documents that have
\* stored vectors, while a dumped config is on disk.
C9_Witness ==
    /\ last.op = "query"
    /\ model
    /\ cache_file.exists
    /\ last.out.ok
    /\ \E i \in 1..Len(last.out.value) : "semantic_score" \in DOMAIN last.out.value[i]

WithoutVector(table) == {table[i].id : i \in {j \in 1..Len(table) : table[j].vector = NoVector}}

\* C10: generate_embeddings encodes the documents that had no vector when it
\* scanned the store and writes vectors to no others: each write changes only
\* the vector of such a document, a run whose encodes all succeed leaves
\* every such document with the encoding of its text_blob and every other
\* row as it was, and a call right after such a run encodes nothing and
\* changes no row.
C10_EmbeddingIdempotence ==
    [][/\ (gen.pc = "idle" /\ last'.op = "generate_embeddings") =>
             /\ rows' = rows
             /\ gen'.pc # "idle" =>
                   /\ gen'.before = rows
                   /\ {gen'.todo[i].id : i \in 1..Len(gen'.todo)} = WithoutVector(rows)
             /\ (gen'.pc = "idle" /\ last'.out.ok) => WithoutVector(rows) = {}
             /\ (last.op = "generate_embeddings" /\ last.out.ok /\ ~last.failed) =>
                   /\ gen'.pc = "idle"
                   /\ last'.encoded = <<>>
       /\ gen.pc = "encode" => rows' = rows
       /\ gen.pc = "write" =>
             LET w == gen.pending[1]
             IN  /\ w.id \in WithoutVector(gen.before)
                 /\ Len(rows') = Len(rows)
                 /\ \A i \in 1..Len(rows) :
                        rows'[i] = IF rows[i].id = w.id
                                   THEN [rows[i] EXCEPT !.vector = encode(rows[i].text_blob)]
                                   ELSE rows[i]
       /\ (gen.pc # "idle" /\ gen'.pc = "idle" /\ ~last'.failed) =>
             /\ Range(last'.encoded) = WithoutVector(gen.before)
             /\ Len(rows') = Len(gen.before)
             /\ \A i \in 1..Len(rows') :
                    rows'[i] = IF gen.before[i].vector = NoVector
                               THEN [gen.before[i] EXCEPT
                                        !.vector = encode(gen.before[i].text_blob)]
                               ELSE gen.before[i]
    ]_vars

\* A run of generate_embeddings whose encodes all succeeded has ended having
\* encoded one document, in a store where another document had its vector
\* already.
C10_Witness ==
    /\ last.op = "generate_embeddings"
    /\ last.done
    /\ last.out.ok
    /\ ~last.failed
    /\ Len(last.encoded) = 1
    /\ Len(rows) > 1
    /\ WithoutVector(rows) = {}

\* The vectors a table holds are the encodings of the rows' own text_blobs
OwnVectors(table) ==
    \A i \in 1..Len(table) :
        table[i].vector \in {NoVector, encode(table[i].text_blob)}

\* C11: a run of generate_embeddings that stops, by a crash after any number
\* of vector writes or over a batch whose encode fails, leaves in the store
\* the vectors it wrote and leaves the other documents without one; a later
\* run whose encodes all succeed encodes only the documents without a vector
\* and ends with get_stats with_vectors equal to total_test_cases.
C11_Restartable ==
    [][/\ last'.op = "crash" =>
             /\ rows' = rows
             /\ Len(rows) = Len(gen.before)
             /\ WithoutVector(rows) = WithoutVector(gen.before) \ Range(gen.encoded)
             /\ \A i \in 1..Len(rows) :
                    rows[i] = IF rows[i].id \in Range(gen.encoded)
                              THEN [gen.before[i] EXCEPT
                                       !.vector = encode(gen.before[i].text_blob)]
                              ELSE gen.before[i]
       /\ (gen.pc = "encode" /\ gen'.pc # "write") => rows' = rows
       /\ (gen.pc = "idle" /\ gen'.pc # "idle") =>
             {gen'.todo[i].id : i \in 1..Len(gen'.todo)} = WithoutVector(rows)
       /\ (/\ gen.pc # "idle"
           /\ last'.op = "generate_embeddings"
           /\ last'.done
           /\ ~last'.failed) =>
             /\ Range(last'.encoded) = WithoutVector(gen.before)
             /\ get_stats(rows').with_vectors = get_stats(rows').total_test_cases
             /\ get_stats(rows').total_test_cases = Len(gen.before)
    ]_vars

\* A run has crashed after writing one vector and before writing another.
C11_Witness ==
    /\ last.op = "crash"
    /\ last.encoded # <<>>
    /\ WithoutVector(rows) # {}
    /\ get_stats(rows).with_vectors = Len(last.encoded)

\* C12, as stated: every query interleaved with a run of generate_embeddings
\* whose own encode call succeeds completes and returns a ranked list.
C12_QueryCompletes ==
    (last.op = "query" /\ gen.pc # "idle" /\ last.encode_ok) => last.out.ok

\* C12, amended: a query interleaved with a run of generate_embeddings leaves
\* the store and the run as they were; it raises exactly when its retriever
\* has a model, the keyword stage returns candidates, and either the encode of
\* the query fails or a candidate has no vector yet; otherwise it returns a list in non-increasing score order
\* whose elements carry the vector the store holds for them at that moment,
\* each absent or the whole encoding of the document's text_blob, and, with
\* a model, the cosine similarity to that vector.
C12_QueryDuringBackfill ==
    [][(last'.op = "query" /\ last' # last /\ gen.pc # "idle") =>
         LET call == last'
             candidates == Candidates(rows, config, call.query_text)
             unvectored == \E i \in 1..Len(candidates) : ~HasVector(candidates[i])
         IN  /\ rows' = rows
             /\ gen' = gen
             /\ OwnVectors(rows)
             /\ call.out.ok <=>
                   ~(/\ call.has_model
                     /\ candidates # <<>>
                     /\ unvectored \/ ~call.encode_ok)
             /\ call.out.ok =>
                   LET out == call.out.value
                   IN  /\ \A i, j \in 1..Len(out) : i < j => out[i].score >= out[j].score
                       /\ \A j \in 1..Len(out) :
                              /\ out[j].vector = get_test_case(rows, out[j].doc_id).vector
                              /\ call.has_model =>
                                    out[j].semantic_score =
                                        cosine_similarity(encode(call.query_text),
                                            get_test_case(rows, out[j].doc_id).vector)
    ]_vars

\* A query with a model, made while a run had written one vector and not yet
\* another, has returned a scored document.
C12_Witness ==
    /\ last.op = "query"
    /\ gen.pc # "idle"
    /\ last.has_model
    /\ last.out.ok
    /\ last.out.value # <<>>
    /\ gen.encoded # <<>>
    /\ WithoutVector(rows) # {}

\* What one run of generate_embeddings whose encodes all succeed makes of a
\* table: every row without a vector gets the encoding of its text_blob
AfterSingleRun(table) ==
    [i \in 1..Len(table) |->
        IF table[i].vector = NoVector
        THEN [table[i] EXCEPT !.vector = encode(table[i].text_blob)]
        ELSE table[i]]

\* C13: while two runs of generate_embeddings interleave on a store nothing
\* else modifies, every step keeps every document and changes at most the
\* vector of one document to the encoding of its own text_blob, and when
\* either run ends without a failed batch the store is what a single run
\* would have made of the store that run scanned.
C13_TwoRunsAsOne ==
    [][/\ (gen.pc # "idle" \/ gen2.pc # "idle") =>
             /\ Len(rows') = Len(rows)
             /\ \A i \in 1..Len(rows) :
                    \/ rows'[i] = rows[i]
                    \/ rows'[i] = [rows[i] EXCEPT !.vector = encode(rows[i].text_blob)]
             /\ Cardinality({i \in 1..Len(rows) : rows'[i] # rows[i]}) <= 1
       /\ (gen.pc # "idle" /\ gen'.pc = "idle" /\ ~last'.failed) =>
             rows' = AfterSingleRun(gen.before)
       /\ (gen2.pc # "idle" /\ gen2'.pc = "idle" /\ ~last'.failed) =>
             rows' = AfterSingleRun(gen2.before)
    ]_vars

\* Two runs in progress have both written the vector of the same document,
\* and each still has a document to go.
C13_Witness ==
    /\ gen.pc # "idle"
    /\ gen2.pc # "idle"
    /\ Range(gen.encoded) \cap Range(gen2.encoded) # {}
    /\ WithoutVector(rows) # {}

\* The places, in a directory listing, of the files that parse and store
StoredFiles(files) == {i \in 1..Len(files) : files[i].kind = "ok"}

FileId(file) == tc_id_of(file.test_case)

\* C14, as stated: after store_test_cases_from_directory on an empty store
\* the store contains exactly as many documents as the count returned.
C14_CountIsStoreSize ==
    (last.op = "store_test_cases_from_directory" /\ last.was_empty)
    => Len(rows) = last.out.value

\* C14, amended: store_test_cases_from_directory returns normally with the
\* number of files that parsed and stored, whatever files failed before or
\* after them; every such file's document is in the store with the content
\* of the last file of its id; started on an empty store, the store holds
\* one document for each distinct id among those files, which is at most the
\* count, and nothing of the files that failed.
C14_BestEffortIngest ==
    last.op = "store_test_cases_from_directory"
    => LET files == last.files
           stored == StoredFiles(files)
       IN  /\ last.out.ok
           /\ last.out.value = Cardinality(stored)
           /\ \A i \in stored :
                  /\ FileId(files[i]) \in IdsOf(rows)
                  /\ (\A j \in stored : j > i => FileId(files[j]) # FileId(files[i]))
                     => /\ get_test_case(rows, FileId(files[i])).title = files[i].test_case.title
                        /\ get_test_case(rows, FileId(files[i])).metadata.original_file
                              = files[i].name
           /\ last.was_empty =>
                  /\ IdsOf(rows) = {FileId(files[i]) : i \in stored}
                  /\ Len(rows) = Cardinality({FileId(files[i]) : i \in stored})
                  /\ Len(rows) <= last.out.value

\* An ingest into an empty store has skipped a first file that failed and
\* stored the file after it.
C14_Witness ==
    /\ last.op = "store_test_cases_from_directory"
    /\ last.was_empty
    /\ Len(last.files) = 2
    /\ last.files[1].kind # "ok"
    /\ last.files[2].kind = "ok"
    /\ last.out.value = 1
    /\ Len(rows) = 1

\* C18 for bulk ingest: when the database raises an error inside a
\* store_test_case call of store_test_cases_from_directory, the call raises
\* to its caller.
C18_StoreErrorPropagates ==
    (/\ last.op = "store_test_cases_from_directory"
     /\ \E i \in 1..Len(last.files) : last.files[i].kind = "store_error")
    => ~last.out.ok

\* C15: when the store exists and opens but the embedding provider cannot
\* be attached, load_from_cache returns a retriever, not None.
C15_KeywordOnlyRetriever ==
    (/\ last.op = "load_from_cache"
     /\ last.db_existed
     /\ last.opens
     /\ ~last.importable)
    => (last.out.ok /\ ~last.out.value.is_none)

\* C16: a retriever returned by load_from_cache has the config read from
\* the dumped file when the file is present, whatever config was supplied,
\* and the supplied config when no file is present; a load_from_cache that
\* follows a dump returns a retriever whose config is that of the retriever
\* that was dumped.
C16_DumpedConfigWins ==
    [][(last'.op = "load_from_cache" /\ last'.out.ok /\ ~last'.out.value.is_none)
       => /\ last'.out.value.config
                = IF cache_file.exists THEN cache_file.data ELSE last'.given
          /\ config' = last'.out.value.config
          /\ last.op = "dump" => (cache_file.exists /\ config' = config)]_vars

\* A retriever was loaded with a config that differs from the dumped one and
\* carries the dumped one.
C16_Witness ==
    /\ last.op = "load_from_cache"
    /\ last.out.ok
    /\ ~last.out.value.is_none
    /\ cache_file.exists
    /\ last.given # cache_file.data
    /\ config = cache_file.data

C19_PriorityNormalized ==
    \A i \in 1..Len(rows) : rows[i].priority \in {"P0", "P1", "P2", "P3"}

\* The first whitespace-separated word of a priority, in upper case
PriorityWord(priority) ==
    LET sp == {i \in 1..Len(priority) : Char(priority, i) = " "}
        end == IF sp = {} THEN Len(priority)
               ELSE (CHOOSE i \in sp : \A j \in sp : i <= j) - 1
    IN  Upper(SubSeq(priority, 1, end))

\* C20: the priority score is 1.0 for P1, 0.8 for P2, 0.6 for P3 and 0.4 for
\* P4 (scores in hundredths), so P1 scores above P2, P2 above P3 and P3
\* above P4; a missing priority, and any priority whose first word is none
\* of these four, scores 0.6.
C20_PriorityScore ==
    /\ calculate_priority_score("P1") > calculate_priority_score("P2")
    /\ calculate_priority_score("P2") > calculate_priority_score("P3")
    /\ calculate_priority_score("P3") > calculate_priority_score("P4")
    /\ last.op = "calculate_priority_score"
       => /\ last.priority = "P1" => last.out = 100
          /\ last.priority = "P2" => last.out = 80
          /\ last.priority = "P3" => last.out = 60
          /\ last.priority = "P4" => last.out = 40
          /\ last.priority = "" => last.out = 60
          /\ PriorityWord(last.priority) \notin {"P1", "P2", "P3", "P4"} => last.out = 60
          /\ PriorityWord(last.priority) = "P1" => last.out = 100
          /\ PriorityWord(last.priority) = "P2" => last.out = 80

\* The priority of a stored document that is none of the four was scored.
C20_Witness ==
    /\ last.op = "calculate_priority_score"
    /\ \E i \in 1..Len(rows) : rows[i].priority = last.priority
    /\ PriorityWord(last.priority) \notin {"P1", "P2", "P3", "P4"}
    /\ last.out = 60

\* C21: the fused score is keyword_weight*keyword_score +
\* semantic_weight*semantic_score + priority_weight*priority_score; with
\* non-negative weights, raising one component score with the other two
\* fixed never lowers it; scores (0.5, 0.0, 0.8) under weights (0.4, 0.4,
\* 0.2) give 0.36, which threshold 0.5 excludes.
C21_FusionMonotone ==
    last.op = "final_score"
    => LET cfg == last.cfg
           k == last.keyword_score
           s == last.semantic_score
           p == last.priority_score
       IN  /\ last.out = cfg.keyword_weight * k + cfg.semantic_weight * s
                         + cfg.priority_weight * p
           /\ last.kept <=> last.out >= cfg.min_similarity_threshold
           /\ \A k2 \in KeywordScores : k2 >= k => final_score(cfg, k2, s, p) >= last.out
           /\ \A s2 \in SemanticScores : s2 >= s => final_score(cfg, k, s2, p) >= last.out
           /\ \A p2 \in PriorityScores : p2 >= p => final_score(cfg, k, s, p2) >= last.out
           /\ (cfg = StrictConfig /\ k = 50 /\ s = 0 /\ p = 80)
              => (last.out = 360 /\ ~last.kept)

\* The spec's example was fused: 0.36, excluded at threshold 0.5.
C21_Witness ==
    /\ last.op = "final_score"
    /\ last.cfg.keyword_weight = 4
    /\ last.cfg.semantic_weight = 4
    /\ last.cfg.priority_weight = 2
    /\ last.cfg.min_similarity_threshold = 500
    /\ last.keyword_score = 50
    /\ last.semantic_score = 0
    /\ last.priority_score = 80
    /\ last.out = 360
    /\ ~last.kept

\* C22, first part: a one-token query on a retriever without a provider
\* returns only documents in which the token occurs in the title, the
\* text_blob, a tag or a component.
C22_OneTokenQuery ==
    (/\ last.op = "query"
     /\ ~model
     /\ last.out.ok
     /\ Len(Split(last.query_text)) = 1)
    => \A i \in 1..Len(last.out.value) : KeywordOccurs(last.out.value[i], last.query_text)

\* C29: every document that passes search_by_keywords for the keywords
\* extracted from a query text gets a keyword_score above 0 from that text,
\* so no element of a query result has keyword_score 0.
C29_FilterAndScorerAgree ==
    (last.op = "query" /\ last.out.ok)
    => \A i \in 1..Len(last.out.value) : last.out.value[i].keyword_score > 0

\* The whitespace-separated tokens of the last scored query
ScoredTokens == Split(last.query_lower)

\* The places of the tokens that occur in a text, whatever its case
TokensIn(text) == {i \in 1..Len(ScoredTokens) : Contains(Lower(text), ScoredTokens[i])}

\* C23: the keyword score is 0.5 when a query token is a substring of the
\* title, plus 0.1 for each query token that occurs in the text_blob up to
\* 0.3, plus 0.2 when a query token occurs in the joined tags and
\* components, all matched without regard to the candidate's case; it lies
\* between 0 and 1.0 (scores in hundredths).
C23_KeywordScore ==
    last.op = "calculate_keyword_score"
    => LET c == last.candidate
           n == Cardinality(TokensIn(c.text_blob))
       IN  /\ last.out = (IF TokensIn(c.title) # {} THEN 50 ELSE 0)
                         + (IF n < 3 THEN 10 * n ELSE 30)
                         + (IF TokensIn(Join(c.tags \o c.components)) # {} THEN 20 ELSE 0)
           /\ last.out >= 0
           /\ last.out <= 100

\* Four tokens of a query occur in a text_blob whose title holds a token too:
\* 0.5 + 0.3.
C23_Witness ==
    /\ last.op = "calculate_keyword_score"
    /\ Cardinality(TokensIn(last.candidate.text_blob)) >= 4
    /\ TokensIn(last.candidate.title) # {}
    /\ last.out = 80

\* The domain terms matched by a query text, and the place of a term in the
\* vocabulary
MatchedDomainTerms(query_text) ==
    {domain_terms[i] : i \in {j \in 1..Len(domain_terms) :
                                Contains(Lower(query_text), domain_terms[j])}}

PlaceIn(xs, x) == CHOOSE i \in 1..Len(xs) : xs[i] = x /\ \A j \in 1..(i - 1) : xs[j] # x

\* The tokens of a query text that are longer than 2 and no stopwords
GeneralTokens(query_text) ==
    LET words == FindWords(Lower(query_text))
    IN  SelectSeq(words, LAMBDA w : Len(w) > 2 /\ w \notin ENGLISH_STOP_WORDS)

\* C24: the extractor returns a list without duplicates that holds the
\* matched domain terms, in vocabulary order, before every other keyword;
\* the other keywords are the tokens longer than 2 that are no stopwords and
\* no matched domain terms, in the order of their first occurrence; a query
\* with no domain term and no such token gives the empty list, and a query
\* whose keyword list is empty returns an empty result.
C24_KeywordOrder ==
    /\ last.op = "extract_keywords"
       => LET out == last.out
              domain == MatchedDomainTerms(last.query_text)
              general == GeneralTokens(last.query_text)
              places == 1..Len(out)
          IN  /\ \A i, j \in places : i # j => out[i] # out[j]
              /\ {out[i] : i \in places} = domain \cup Range(general)
              /\ \A i, j \in places :
                    (i < j /\ out[j] \in domain)
                    => /\ out[i] \in domain
                       /\ PlaceIn(domain_terms, out[i]) < PlaceIn(domain_terms, out[j])
              /\ \A i, j \in places :
                    (i < j /\ out[i] \notin domain /\ out[j] \notin domain)
                    => PlaceIn(general, out[i]) < PlaceIn(general, out[j])
              /\ \A i \in places :
                    out[i] \notin domain
                    => (Len(out[i]) > 2 /\ out[i] \notin ENGLISH_STOP_WORDS)
              /\ (domain = {} /\ general = <<>>) => out = <<>>
    /\ (last.op = "query" /\ extract_keywords(last.query_text) = <<>>)
       => last.out = Returned(<<>>)

\* A query gave matched domain terms and another keyword after them, a token
\* that is a domain term too being listed once.
C24_Witness ==
    /\ last.op = "extract_keywords"
    /\ \E i \in 1..Len(last.out) : last.out[i] \notin MatchedDomainTerms(last.query_text)
    /\ \E i \in 1..Len(GeneralTokens(last.query_text)) :
          GeneralTokens(last.query_text)[i] \in MatchedDomainTerms(last.query_text)
    /\ Len(last.out) >= 3

\* C25: the semantic score of a result of a query with a provider is the
\* cosine similarity of the query vector and the stored vector, 0 when
\* either has norm zero, and enters the fused score as it is: a negative
\* similarity makes the fused score lower than the keyword and priority
\* terms alone (similarities in hundredths; the vectors modelled have whole
\* norms and similarities that are whole hundredths).
C25_CosineUnclamped ==
    (last.op = "query" /\ model /\ last.out.ok)
    => \A i \in 1..Len(last.out.value) :
          LET r == last.out.value[i]
              q == encode(last.query_text)
              v == r.vector
          IN  /\ "semantic_score" \in DOMAIN r
              /\ (Dot(q, q) = 0 \/ Dot(v, v) = 0) => r.semantic_score = 0
              /\ (Dot(q, q) # 0 /\ Dot(v, v) # 0)
                 => r.semantic_score * Norm(q) * Norm(v) = 100 * Dot(q, v)
              /\ r.score = config.keyword_weight * r.keyword_score
                           + config.semantic_weight * r.semantic_score
                           + config.priority_weight * r.priority_score
              /\ (r.semantic_score < 0 /\ config.semantic_weight > 0)
                 => r.score < config.keyword_weight * r.keyword_score
                              + config.priority_weight * r.priority_score

\* A result has a negative semantic score and a fused score below its
\* keyword and priority terms.
C25_Witness ==
    /\ last.op = "query"
    /\ model
    /\ last.out.ok
    /\ config.semantic_weight > 0
    /\ \E i \in 1..Len(last.out.value) :
          /\ last.out.value[i].semantic_score < 0
          /\ last.out.value[i].score
                < config.keyword_weight * last.out.value[i].keyword_score
                  + config.priority_weight * last.out.value[i].priority_score

\* C26: the priority score of a document of priority P0 is not below that of
\* P1, nor P1's below P2's, nor P2's below P3's.
C26_PriorityOrder ==
    /\ (last.op = "calculate_priority_score" /\ last.priority = "P0")
       => last.out >= calculate_priority_score("P1")
    /\ calculate_priority_score("P1") >= calculate_priority_score("P2")
    /\ calculate_priority_score("P2") >= calculate_priority_score("P3")

\* C27: store_test_case without a vector on an id that has a stored vector
\* leaves the document without one, get_test_case(id).vector absent and
\* with_vectors one lower; from_test_case_dir leaves every document it
\* ingests without a vector; a query with a provider raises while one of its
\* candidates has no vector; and a generate_embeddings that ends without a
\* failed batch leaves no document without a vector.
C27_UpsertDropsVector ==
    [][/\ last'.op = "store_test_case"
          => LET old == get_test_case(rows, last'.out)
             IN  /\ get_test_case(rows', last'.out).vector = NoVector
                 /\ (old # None /\ old.vector # NoVector)
                    => get_stats(rows').with_vectors = get_stats(rows).with_vectors - 1
       /\ last'.op = "from_test_case_dir"
          => \A i \in StoredFiles(last'.files) :
                get_test_case(rows', FileId(last'.files[i])).vector = NoVector
       /\ (/\ last'.op = "query"
           /\ model'
           /\ \E i \in 1..Len(rows') :
                 /\ rows'[i].vector = NoVector
                 /\ \E j \in 1..Len(Candidates(rows', config', last'.query_text)) :
                       Candidates(rows', config', last'.query_text)[j].doc_id = rows'[i].id)
          => ~last'.out.ok
       /\ (last'.op = "generate_embeddings" /\ last'.out.ok /\ ~last'.failed)
          => WithoutVector(rows') = {}]_vars

\* A document that had a vector was stored again and has none.
C27_Witness ==
    /\ last.op = "store_test_case"
    /\ last.before # None
    /\ last.before.vector # NoVector
    /\ get_test_case(rows, last.out).vector = NoVector
    /\ get_stats(rows).with_vectors >= 1

\* C28: a retriever from the constructor or from from_test_case_dir has no
\* provider; generate_embeddings that does not raise leaves one attached;
\* a retriever returned by load_from_cache has one attached, and a
\* load_from_cache that returns None leaves the retriever in use as it was;
\* query, dump, generate_embeddings and the replacement of the config never
\* detach it, a query leaves the attachment as it is; and a query with a
\* provider and a candidate runs the semantic stage: it raises or every
\* result carries a semantic score, while without a provider none does.
C28_ProviderStaysAttached ==
    [][/\ last'.op \in {"init", "from_test_case_dir"} => ~model'
       /\ last'.op = "load_from_cache"
          => /\ ~last'.out.value.is_none => model'
             /\ last'.out.value.is_none => model' = model
       /\ last'.op = "generate_embeddings"
          => /\ last'.out.ok => model'
             /\ ~last'.out.ok => (~model /\ ~model')
       /\ last'.op \in {"query", "dump", "generate_embeddings", "replace_config"}
          => (model => model')
       /\ last'.op = "query"
          => /\ model' = model
             /\ last'.out.ok
                => \A i \in 1..Len(last'.out.value) :
                      model <=> "semantic_score" \in DOMAIN last'.out.value[i]
             /\ (model /\ Candidates(rows, config, last'.query_text) = <<>>)
                => last'.out = Returned(<<>>)]_vars

\* The config of a retriever with a provider was replaced, and the provider
\* is still attached.
C28_Witness ==
    /\ last.op = "replace_config"
    /\ model
    /\ config = KeywordOnlyConfig

\* C30: every stored vector is the encoding of the text_blob stored under
\* its id, also when store_test_case replaces a document between the scan
\* of generate_embeddings and its update_vector call.
C30_VectorOfStoredText ==
    \A i \in 1..Len(rows) :
        rows[i].vector # NoVector => rows[i].vector = encode(rows[i].text_blob)

====
